---- MODULE Spec2Model ----
(***************************************************************************)
(* Model of the loan schedule simulator (loan_calc_lib.py, loan_calc.py).  *)
(*                                                                         *)
(* LoanCalc is modelled statement group by statement group: one action for *)
(* the function entry, one for each stage of the loop body, one for the    *)
(* final append and return.  The caller (loan_calc.py) builds the input    *)
(* objects and calls LoanCalc several times with the same instances.       *)
(*                                                                         *)
(* Python objects live in `heap`; the locals of LoanCalc that hold objects  *)
(* (loan, budget, payments, exits, reamor_loan) hold addresses, so that a   *)
(* copy and an alias are different things.                                  *)
(*                                                                         *)
(* Python floats are modelled as decimal fixed-point numbers: the integer  *)
(* x stands for x / SCALE.  Sums and differences are exact, every product   *)
(* and quotient is rounded to the nearest representable number, which is    *)
(* what IEEE arithmetic does at a finer resolution.                         *)
(***************************************************************************)
EXTENDS Integers, Sequences, FiniteSets, TLC

\* ------------------------------------------------------------------------
\* float arithmetic
\* ------------------------------------------------------------------------
SCALE == 1000

\* the float with the whole value n
F(n) == n * SCALE

\* n / d rounded to the nearest integer (d > 0)
Round(n, d) == (n + d \div 2) \div d

\* float * float
FMul(a, b) == Round(a * b, SCALE)

\* float / float
FDiv(a, b) == Round(a * SCALE, b)

\* float / int
FDivInt(a, n) == Round(a, n)

\* math.pow(b, n) for an int n >= 0
RECURSIVE FPow(_, _)
FPow(b, n) == IF n = 0 THEN F(1) ELSE FMul(FPow(b, n - 1), b)

Min(a, b) == IF a <= b THEN a ELSE b

\* ------------------------------------------------------------------------
\* Optional[...] values
\* ------------------------------------------------------------------------
None == <<>>
Some(x) == <<x>>
IsNone(o) == o = <<>>
Val(o) == o[1]
\* Python truthiness of an Optional[float]: None and 0 are falsy
Truthy(o) == IF o = <<>> THEN FALSE ELSE o[1] # 0

Reverse(s) == [i \in 1..Len(s) |-> s[Len(s) + 1 - i]]
Front(s) == SubSeq(s, 1, Len(s) - 1)
Last(s) == s[Len(s)]

\* ------------------------------------------------------------------------
\* the data model (loan_calc_lib.py, the dataclasses)
\* ------------------------------------------------------------------------
DIRECT == "DIRECT"
REAMORTIZING == "REAMORTIZING"

Loan(name, amount, rate, term, fixed_period, var_rate) ==
  [name |-> name, amount |-> amount, rate |-> rate, term |-> term,
   fixed_period |-> fixed_period, var_rate |-> var_rate]

Budget(monthly_income, salary_rate_increase, monthly_expenses, expenses_rate_increase, monthly_prop_tax, min_principal_payment, month_offset, overflow_principal_percent, overflow_principal_abs) ==
  [name |-> "budget",
   monthly_income |-> monthly_income,
   salary_rate_increase |-> salary_rate_increase,
   monthly_expenses |-> monthly_expenses,
   expenses_rate_increase |-> expenses_rate_increase,
   monthly_prop_tax |-> monthly_prop_tax,
   min_principal_payment |-> min_principal_payment,
   month_offset |-> month_offset,
   overflow_principal_percent |-> overflow_principal_percent,
   overflow_principal_abs |-> overflow_principal_abs]

\* new_loan_terms is None or Some(address of a Loan)
PrincipalPayment(type, amount, time, new_loan_terms) ==
  [type |-> type, amount |-> amount, time |-> time,
   new_loan_terms |-> new_loan_terms]

LoanEval(loan_name, principal_remaining, principal_paid, interest_paid, length, monthly_payments) ==
  [loan_name |-> loan_name, principal_remaining |-> principal_remaining,
   principal_paid |-> principal_paid, interest_paid |-> interest_paid,
   length |-> length, monthly_payments |-> monthly_payments]

\* ------------------------------------------------------------------------
\* the pieces of LoanCalc
\* ------------------------------------------------------------------------
\* loan.rate / (12 * 100)
MonthlyInt(l) == FDivInt(l.rate, 12 * 100)

\* 0.0 if not loan.var_rate else loan.var_rate / (12 * 100)
MonthlyVarInt(l) ==
  IF ~Truthy(l.var_rate) THEN 0 ELSE FDivInt(Val(l.var_rate), 12 * 100)

GetMonthlyPayment(l) ==
  LET monthly_int == MonthlyInt(l)
      pw == FPow(F(1) + monthly_int, l.term)
  IN  FMul(l.amount, FDiv(FMul(monthly_int, pw), pw - F(1)))

\* dataclasses.replace(obj) and list[:] return a new object: `fresh` is the
\* address the copy is allocated at, `src` the address of the original
ReplaceAlias(src, fresh) == src
ReplaceIntoLoan(src, fresh) == IF fresh = "reamor_copy" THEN "loan_copy" ELSE fresh
Replace(src, fresh) == fresh
ListCopy(src, fresh) == fresh

\* while remaining_principal > 0
LoopGuardInclusive(rp) == rp >= 0
LoopGuard(rp) == rp > 0

\* not last_exit and terms_paid == exits[current_exit]
ExitDueOffByOne(le, tp, ex, ce) == ~le /\ tp + 1 = ex[ce + 1]
ExitDueAlways(le, tp, ex, ce) == ~le
ExitDue(le, tp, ex, ce) == ~le /\ tp = ex[ce + 1]

\* the snapshot built at an exit and at payoff
MakeEvalAfterPayment(l, rp, ip, tp, mp) ==
  LoanEval(l.name, rp - mp, l.amount - (rp - mp), ip, tp, mp)
MakeEval(l, rp, ip, tp, mp) ==
  LoanEval(l.name, rp, l.amount - rp, ip, tp, mp)

\* next_lump_sum and next_lump_sum.time == terms_paid
LumpDue(nls, tp) == IF IsNone(nls) THEN FALSE ELSE Val(nls).time = tp

\* remaining_principal -= next_lump_sum.amount
AfterLumpSkippingReamor(rp, p) ==
  IF p.type = REAMORTIZING THEN rp ELSE rp - p.amount
AfterLump(rp, p) == rp - p.amount

\* the fixed period the loop tests after a reamortization: the code adds
\* terms_paid to reamor_loan.fixed_period and leaves the local alone
FixedPeriodAfterReamor(fp, rl) == fp

\* budget_savings > budget.min_principal_payment
SweepDueInclusive(bs, b) == bs >= b.min_principal_payment
SweepDue(bs, b) == bs > b.min_principal_payment

\* budget.monthly_income - (budget.monthly_expenses + monthly_payment + budget.monthly_prop_tax)
MonthlySavings(b, mp) ==
  b.monthly_income - (b.monthly_expenses + mp + b.monthly_prop_tax)

\* monthly_int * remaining_principal
Interest(mi, rp) == FMul(mi, rp)

\* terms_paid >= fixed_period
PastFixed(tp, fp) == tp >= fp

\* (monthly_var_int - monthly_int) * remaining_principal
ExtraInterest(mvi, mi, rp) == FMul(mvi - mi, rp)

\* remaining_principal -= monthly_payment - interest
Amortize(rp, mp, i) == rp - (mp - i)

\* the overflow accumulation
OverflowedAbsFirst(bs, ms, b) ==
  IF Truthy(b.overflow_principal_abs)
  THEN bs + Min(ms, Val(b.overflow_principal_abs))
  ELSE IF ~IsNone(b.overflow_principal_percent)
       THEN bs + FMul(ms, FDivInt(Val(b.overflow_principal_percent), 100))
       ELSE bs
Overflowed(bs, ms, b) ==
  IF ~IsNone(b.overflow_principal_percent)
  THEN bs + FMul(ms, FDivInt(Val(b.overflow_principal_percent), 100))
  ELSE IF Truthy(b.overflow_principal_abs)
       THEN bs + Min(ms, Val(b.overflow_principal_abs))
       ELSE bs

\* ((terms_paid + budget.month_offset) % 12) == 0
AnnualDueBeforeIncrement(tp, b) == ((tp - 1 + b.month_offset) % 12) = 0
AnnualDue(tp, b) == ((tp + b.month_offset) % 12) = 0

\* budget.monthly_income *= ..., budget.monthly_expenses *= ...
Adjusted(b) ==
  [b EXCEPT !.monthly_income = FMul(@, F(1) + FDivInt(b.salary_rate_increase, 100)),
            !.monthly_expenses = FMul(@, F(1) + FDivInt(b.expenses_rate_increase, 100))]

\* ------------------------------------------------------------------------
\* bounds and the inputs the caller builds
\* ------------------------------------------------------------------------
MaxMonths == 14
MaxCalls == 2
MaxPayments == 2
MaxExits == 2
MaxExitMonth == 5

Amounts == {F(1000)}
Rates == {F(60), F(120)}
Terms == {1, 3, 4}
VarRates == {None, Some(F(240))}

ShortLoans ==
  {Loan("loan", a, r, t, fp, vr) :
     a \in Amounts, r \in Rates, t \in Terms, fp \in {1, 4}, vr \in VarRates}

\* a loan over one year, and a long loan at a high rate
YearLoan == Loan("loan", F(1000), F(60), 12, 12, None)
SteepLoan == Loan("loan", F(1000), F(600), 18, 18, None)

Loans == ShortLoans \cup {YearLoan, SteepLoan}

\* the terms the reamortizing payments carry; its amount is a dummy value
NewTerms == Loan("terms", F(77), F(60), 2, 1, Some(F(240)))

OverflowPolicies ==
  {<<None, None>>, <<Some(F(50)), None>>, <<None, Some(F(100))>>,
   <<Some(0), Some(F(100))>>, <<Some(F(50)), Some(F(100))>>, <<None, Some(0)>>}

Budgets ==
  {Budget(inc, F(10), F(200), F(5), F(100), mpp, off, op[1], op[2]) :
     inc \in {F(300), F(1500)}, mpp \in {0, F(300)}, off \in {0, 10},
     op \in OverflowPolicies}

\* the budgets tried with the long loans: a loan period that started in
\* January, in February or in November
YearBudgets ==
  {Budget(F(1500), F(10), F(200), F(5), F(100), F(300), off, op[1], op[2]) :
     off \in {0, 1, 10}, op \in {<<None, None>>, <<None, Some(F(100))>>}}

DefaultBudget == Budget(F(1500), F(10), F(200), F(5), F(100), F(300), 10, None, None)
SweepBudget == Budget(F(1500), F(10), F(200), F(5), F(100), F(300), 10, Some(F(50)), None)

Payments ==
  {PrincipalPayment(DIRECT, F(100), 0, None),
   PrincipalPayment(DIRECT, F(100), 1, None),
   PrincipalPayment(DIRECT, F(1200), 1, None),
   PrincipalPayment(REAMORTIZING, F(100), 1, Some("terms_arg")),
   PrincipalPayment(REAMORTIZING, 0, 2, Some("terms_arg")),
   PrincipalPayment(REAMORTIZING, F(100), 2, None)}

SeqsUpTo(S, n) == UNION {[1..k -> S] : k \in 0..n}

\* the caller supplies the payments sorted by time
PaymentLists ==
  {ps \in SeqsUpTo(Payments, MaxPayments) :
     \A i \in 1..Len(ps) - 1 : ps[i].time <= ps[i + 1].time}

\* exits is an ascending list of months
ExitLists ==
  {ex \in SeqsUpTo(0..MaxExitMonth, MaxExits) :
     \A i \in 1..Len(ex) - 1 : ex[i] < ex[i + 1]}

\* the combinations of inputs the caller tries
Scenarios ==
  (ShortLoans \X {DefaultBudget} \X {<<>>} \X ExitLists)
  \cup (ShortLoans \X Budgets \X {<<>>} \X {<<>>, <<1, 3>>})
  \cup ({l \in ShortLoans : l.rate = F(120) /\ l.term # 1}
          \X {DefaultBudget, SweepBudget} \X PaymentLists \X {<<>>, <<1, 2>>})
  \cup ({YearLoan, SteepLoan} \X YearBudgets \X {<<>>} \X {<<>>, <<1, 3>>})

CallerAddrs == {"loan_arg", "budget_arg", "payments_arg", "exits_arg",
                "terms_arg", "fixed_arg"}
EngineAddrs == {"loan_copy", "budget_copy", "payments_copy", "exits_copy",
                "reamor_copy"}

\* ------------------------------------------------------------------------
\* state
\* ------------------------------------------------------------------------
VARIABLES
  heap,                \* address -> object (dataclass instance or list)
  given,               \* the objects as the caller built them
  pc,                  \* where the caller / LoanCalc stands
  calls,               \* number of LoanCalc calls started
  called,              \* address of the loan passed to the current call
  prev,                \* what the previous call returned and logged
  loan, budget, payments, exits, reamor_loan,
  monthly_payment, remaining_principal, terms_paid, monthly_int,
  monthly_var_int, fixed_period, next_lump_sum, budget_savings,
  current_exit, last_exit, interest_paid, loan_evals,
  monthly_savings, interest,
  principal_log,       \* remaining_principal after each month (the verbose trace)
  surcharge_paid,      \* sum of the extra_interest charged in this call
  surcharged           \* whether the last simulated month took the surcharge branch

refs == <<loan, budget, payments, exits, reamor_loan>>
rates == <<monthly_payment, monthly_int, monthly_var_int, fixed_period>>
cursor == <<current_exit, last_exit, loan_evals>>
caller == <<given, calls, called, prev>>
logs == <<principal_log, surcharge_paid, surcharged>>
vars == <<heap, pc, caller, refs, rates, cursor, logs, remaining_principal,
          terms_paid, next_lump_sum, budget_savings, interest_paid,
          monthly_savings, interest>>

NoCall == [evals |-> <<>>, principals |-> <<>>, surcharge |-> 0,
           interest |-> 0, length |-> 0, loan |-> "none"]

Init ==
  \E s \in Scenarios :
   LET l == s[1]
       b == s[2]
       ps == s[3]
       ex == s[4]
   IN
    /\ l \in Loans
    /\ heap = [a \in CallerAddrs \cup EngineAddrs |->
                CASE a = "loan_arg" -> l
                  [] a = "budget_arg" -> b
                  [] a = "payments_arg" -> ps
                  [] a = "exits_arg" -> ex
                  [] a = "terms_arg" -> NewTerms
                  [] OTHER -> None]
    /\ given = [a \in CallerAddrs |->
                CASE a = "loan_arg" -> l
                  [] a = "budget_arg" -> b
                  [] a = "payments_arg" -> ps
                  [] a = "exits_arg" -> ex
                  [] a = "terms_arg" -> NewTerms
                  [] OTHER -> None]
    /\ pc = "idle" /\ calls = 0 /\ called = "none" /\ prev = NoCall
    /\ loan = "none" /\ budget = "none" /\ payments = "none" /\ exits = "none"
    /\ reamor_loan = None
    /\ monthly_payment = 0 /\ remaining_principal = 0 /\ terms_paid = 0
    /\ monthly_int = 0 /\ monthly_var_int = 0 /\ fixed_period = 0
    /\ next_lump_sum = None /\ budget_savings = 0
    /\ current_exit = 0 /\ last_exit = FALSE /\ interest_paid = 0
    /\ loan_evals = <<>> /\ monthly_savings = 0 /\ interest = 0
    /\ principal_log = <<>> /\ surcharge_paid = 0 /\ surcharged = FALSE

\* ------------------------------------------------------------------------
\* LoanCalc
\* ------------------------------------------------------------------------
\* what the finished call returned and logged, kept by the caller
Returned ==
  IF pc = "done"
  THEN [evals |-> loan_evals, principals |-> principal_log,
        surcharge |-> surcharge_paid, interest |-> interest_paid,
        length |-> terms_paid, loan |-> called]
  ELSE prev

\* the function entry up to the loop, called on the loan at address src in
\* the heap h
Enter(src, h) ==
  LET l == Replace(src, "loan_copy")
      h1 == [h EXCEPT ![l] = h[src]]
      b == Replace("budget_arg", "budget_copy")
      h2 == [h1 EXCEPT ![b] = h1["budget_arg"]]
      p == ListCopy("payments_arg", "payments_copy")
      h3 == [h2 EXCEPT ![p] = h2["payments_arg"]]
      e == ListCopy("exits_arg", "exits_copy")
      h4 == [h3 EXCEPT ![e] = h3["exits_arg"]]
      reversed == Reverse(h4[p])
  IN  /\ loan' = l /\ budget' = b /\ payments' = p /\ exits' = e
      /\ reamor_loan' = None
      /\ monthly_payment' = GetMonthlyPayment(h4[l])
      /\ remaining_principal' = h4[l].amount
      /\ terms_paid' = 0
      /\ monthly_int' = MonthlyInt(h4[l])
      /\ monthly_var_int' = MonthlyVarInt(h4[l])
      /\ fixed_period' = h4[l].fixed_period
      /\ IF h4[p] # <<>>
         THEN /\ next_lump_sum' = Some(Last(reversed))
              /\ heap' = [h4 EXCEPT ![p] = Front(reversed)]
         ELSE /\ next_lump_sum' = None
              /\ heap' = h4
      /\ budget_savings' = 0
      /\ current_exit' = 0
      /\ last_exit' = (h4[e] = <<>>)
      /\ interest_paid' = 0
      /\ loan_evals' = <<>>
      /\ principal_log' = <<>> /\ surcharge_paid' = 0 /\ surcharged' = FALSE
      /\ UNCHANGED <<monthly_savings, interest>>

\* the caller calls LoanCalc(loan, budget, payments, exits)
Call ==
  /\ pc \in {"idle", "done"}
  /\ calls < MaxCalls
  /\ pc' = "while"
  /\ calls' = calls + 1
  /\ called' = "loan_arg"
  /\ prev' = Returned
  /\ Enter("loan_arg", heap)
  /\ UNCHANGED given

\* the caller builds the fully fixed loan with the same amount, rate and
\* term and calls LoanCalc with it and the same budget, payments and exits
CallFixed ==
  /\ pc = "done"
  /\ called = "loan_arg"
  /\ calls < MaxCalls
  /\ \E fp \in {heap["loan_arg"].term, heap["loan_arg"].term + MaxMonths} :
       LET twin == [heap["loan_arg"] EXCEPT !.fixed_period = fp, !.var_rate = None]
       IN  /\ given' = [given EXCEPT !["fixed_arg"] = twin]
           /\ Enter("fixed_arg", [heap EXCEPT !["fixed_arg"] = twin])
  /\ pc' = "while"
  /\ calls' = calls + 1
  /\ called' = "fixed_arg"
  /\ prev' = Returned

\* the loop test and the exit check
ExitCheck ==
  /\ pc = "while"
  /\ LoopGuard(remaining_principal)
  /\ terms_paid < MaxMonths
  /\ IF ExitDue(last_exit, terms_paid, heap[exits], current_exit)
     THEN /\ current_exit' = current_exit + 1
          /\ last_exit' = (current_exit' = Len(heap[exits]))
          /\ loan_evals' = Append(loan_evals,
               MakeEval(heap[loan], remaining_principal, interest_paid,
                        terms_paid, monthly_payment))
     ELSE UNCHANGED cursor
  /\ pc' = "lump"
  /\ UNCHANGED <<heap, caller, refs, rates, logs, remaining_principal,
                 terms_paid, next_lump_sum, budget_savings, interest_paid,
                 monthly_savings, interest>>

\* the lump sum due this month, with its reamortization
LumpSum ==
  /\ pc = "lump"
  /\ IF LumpDue(next_lump_sum, terms_paid)
     THEN LET p == Val(next_lump_sum)
              rp == AfterLump(remaining_principal, p)
          IN  IF p.type = REAMORTIZING /\ IsNone(p.new_loan_terms)
              THEN \* dataclasses.replace(None) raises
                   /\ pc' = "raised"
                   /\ remaining_principal' = rp
                   /\ UNCHANGED <<heap, reamor_loan, rates, next_lump_sum>>
              ELSE /\ pc' = "sweep"
                   /\ remaining_principal' = rp
                   /\ LET r == Replace(Val(p.new_loan_terms), "reamor_copy")
                          h1 == [heap EXCEPT ![r] = heap[Val(p.new_loan_terms)]]
                          h2 == [h1 EXCEPT ![r].amount = rp]
                          h3 == [h2 EXCEPT ![r].fixed_period = @ + terms_paid]
                          h == IF p.type = REAMORTIZING THEN h3 ELSE heap
                      IN  /\ IF p.type = REAMORTIZING
                             THEN /\ reamor_loan' = Some(r)
                                  /\ monthly_payment' = GetMonthlyPayment(h2[r])
                                  /\ monthly_int' = MonthlyInt(h3[r])
                                  /\ monthly_var_int' = MonthlyVarInt(h3[r])
                                  /\ fixed_period' = FixedPeriodAfterReamor(fixed_period, h3[r])
                             ELSE UNCHANGED <<reamor_loan, rates>>
                          /\ IF h[payments] # <<>>
                             THEN /\ next_lump_sum' = Some(Last(h[payments]))
                                  /\ heap' = [h EXCEPT ![payments] = Front(@)]
                             ELSE /\ next_lump_sum' = None
                                  /\ heap' = h
     ELSE /\ pc' = "sweep"
          /\ UNCHANGED <<heap, reamor_loan, rates, next_lump_sum,
                         remaining_principal>>
  /\ UNCHANGED <<caller, loan, budget, payments, exits, cursor, logs,
                 terms_paid, budget_savings, interest_paid, monthly_savings,
                 interest>>

\* the savings payment
Sweep ==
  /\ pc = "sweep"
  /\ IF SweepDue(budget_savings, heap[budget])
     THEN /\ remaining_principal' = remaining_principal - budget_savings
          /\ budget_savings' = 0
     ELSE UNCHANGED <<remaining_principal, budget_savings>>
  /\ pc' = "interest"
  /\ UNCHANGED <<heap, caller, refs, rates, cursor, logs, terms_paid,
                 next_lump_sum, interest_paid, monthly_savings, interest>>

\* the month's leftover, interest, surcharge and amortization
Charge ==
  /\ pc = "interest"
  /\ LET ms == MonthlySavings(heap[budget], monthly_payment)
         i == Interest(monthly_int, remaining_principal)
         past == PastFixed(terms_paid, fixed_period)
         extra_interest == ExtraInterest(monthly_var_int, monthly_int, remaining_principal)
     IN  /\ interest' = i
         /\ monthly_savings' = IF past THEN ms - extra_interest ELSE ms
         /\ interest_paid' = IF past THEN interest_paid + i + extra_interest
                                     ELSE interest_paid + i
         /\ remaining_principal' = Amortize(remaining_principal, monthly_payment, i)
         /\ surcharged' = past
         /\ surcharge_paid' = IF past THEN surcharge_paid + extra_interest
                                      ELSE surcharge_paid
         /\ principal_log' = Append(principal_log, remaining_principal')
  /\ pc' = "overflow"
  /\ UNCHANGED <<heap, caller, refs, rates, cursor, terms_paid, next_lump_sum,
                 budget_savings>>

\* the overflow accumulation and the month counter
Overflow ==
  /\ pc = "overflow"
  /\ budget_savings' = Overflowed(budget_savings, monthly_savings, heap[budget])
  /\ terms_paid' = terms_paid + 1
  /\ pc' = "annual"
  /\ UNCHANGED <<heap, caller, refs, rates, cursor, logs, remaining_principal,
                 next_lump_sum, interest_paid, monthly_savings, interest>>

\* the yearly change of the budget terms
Annual ==
  /\ pc = "annual"
  /\ IF AnnualDue(terms_paid, heap[budget])
     THEN heap' = [heap EXCEPT ![budget] = Adjusted(@)]
     ELSE UNCHANGED heap
  /\ pc' = "while"
  /\ UNCHANGED <<caller, refs, rates, cursor, logs, remaining_principal,
                 terms_paid, next_lump_sum, budget_savings, interest_paid,
                 monthly_savings, interest>>

\* the loop ends: the payoff snapshot and the return
Finish ==
  /\ pc = "while"
  /\ ~LoopGuard(remaining_principal)
  /\ loan_evals' = Append(loan_evals,
       MakeEval(heap[loan], remaining_principal, interest_paid, terms_paid,
                monthly_payment))
  /\ pc' = "done"
  /\ UNCHANGED <<heap, caller, refs, rates, current_exit, last_exit, logs,
                 remaining_principal, terms_paid, next_lump_sum,
                 budget_savings, interest_paid, monthly_savings, interest>>

Next ==
  \/ Call
  \/ CallFixed
  \/ ExitCheck
  \/ LumpSum
  \/ Sweep
  \/ Charge
  \/ Overflow
  \/ Annual
  \/ Finish

Spec == Init /\ [][Next]_vars

\* a call that has been entered runs on: the interpreter always executes the
\* next statement of LoanCalc; the caller is free not to call again
Step == ExitCheck \/ LumpSum \/ Sweep \/ Charge \/ Overflow \/ Annual \/ Finish
FairSpec == Spec /\ WF_vars(Step)

\* ------------------------------------------------------------------------
\* properties
\* ------------------------------------------------------------------------
given_exits == given["exits_arg"]
given_budget == given["budget_arg"]
NoLumpSums == given["payments_arg"] = <<>>
NoOverflowPolicy ==
  /\ IsNone(given_budget.overflow_principal_percent)
  /\ IsNone(given_budget.overflow_principal_abs)
NumEvals == Len(loan_evals)
IsPayoffEval(e) ==
  /\ e.length = terms_paid
  /\ e.principal_remaining = remaining_principal
  /\ e.principal_remaining <= 0

\* C1 as claimed: every finished run returns len(exits) + 1 snapshots, with
\* non-decreasing lengths, the first len(exits) of them having the exits as
\* their lengths, the last being the payoff snapshot.
C1_AsClaimed ==
  pc = "done" =>
    /\ NumEvals = Len(given_exits) + 1
    /\ \A i \in 1..NumEvals - 1 : loan_evals[i].length <= loan_evals[i + 1].length
    /\ \A i \in 1..Len(given_exits) : loan_evals[i].length = given_exits[i]
    /\ IsPayoffEval(loan_evals[NumEvals])

\* C1 amended: a finished run returns k + 1 snapshots, k being the number of
\* exits smaller than the payoff month; their lengths are non-decreasing, the
\* first k have the first k exits as their lengths, the last is the payoff
\* snapshot; so there are len(exits) + 1 snapshots exactly when every exit is
\* smaller than the payoff month.
C1_SnapshotsFollowExits ==
  pc = "done" =>
    /\ NumEvals = Cardinality({i \in 1..Len(given_exits) : given_exits[i] < terms_paid}) + 1
    /\ \A i \in 1..NumEvals - 1 : loan_evals[i].length <= loan_evals[i + 1].length
    /\ \A i \in 1..NumEvals - 1 : loan_evals[i].length = given_exits[i]
    /\ IsPayoffEval(loan_evals[NumEvals])
    /\ (NumEvals = Len(given_exits) + 1) <=>
         (\A i \in 1..Len(given_exits) : given_exits[i] < terms_paid)

C1_Witness ==
  /\ pc = "done"
  /\ Len(given_exits) = 2
  /\ NumEvals = 3
  /\ loan_evals[2].length = given_exits[2]

\* C2 as claimed: when an exit month equals the payoff month, the result
\* ends with two snapshots of that length.
C2_AsClaimed ==
  (pc = "done" /\ \E i \in 1..Len(given_exits) : given_exits[i] = terms_paid) =>
    /\ NumEvals >= 2
    /\ loan_evals[NumEvals - 1].length = terms_paid
    /\ loan_evals[NumEvals].length = terms_paid

\* C2 amended: an exit month equal to the payoff month is not emitted, since
\* the loop ends before that month's exit check: every exit snapshot is taken
\* with a positive principal and has a length smaller than the payoff
\* month, and only the final snapshot has the payoff month as its length.
C2_NoExitAtPayoff ==
  pc = "done" =>
    /\ \A i \in 1..NumEvals - 1 :
         /\ loan_evals[i].length < terms_paid
         /\ loan_evals[i].principal_remaining > 0
    /\ loan_evals[NumEvals].length = terms_paid

C2_Witness ==
  /\ pc = "done"
  /\ \E i \in 1..Len(given_exits) : given_exits[i] = terms_paid
  /\ NumEvals >= 2

\* C3: an exit that is not reached before payoff is not emitted, so that the
\* result is shorter than len(exits) + 1, and the payoff snapshot is appended
\* once, as the last entry, however many exits are left.
C3_UnreachedExitsDropped ==
  pc = "done" =>
    /\ NumEvals = current_exit + 1
    /\ NumEvals <= Len(given_exits) + 1
    /\ \A i \in 1..Len(given_exits) :
         given_exits[i] >= terms_paid => (i > NumEvals - 1 /\ NumEvals < Len(given_exits) + 1)
    /\ loan_evals[NumEvals] =
         MakeEval(given[called], remaining_principal, interest_paid, terms_paid, monthly_payment)
    /\ loan_evals[NumEvals].principal_remaining <= 0
    /\ \A i \in 1..NumEvals - 1 : loan_evals[i] # loan_evals[NumEvals]

C3_Witness ==
  /\ pc = "done"
  /\ Len(given_exits) = 2
  /\ given_exits[1] < terms_paid
  /\ given_exits[2] > terms_paid
  /\ NumEvals = 2

\* C4: the objects the caller passed are never changed, and a second call
\* with the same instances returns the same snapshots.
C4_InputsUnmutated ==
  /\ \A a \in CallerAddrs : heap[a] = given[a]
  /\ (pc = "done" /\ calls >= 2 /\ prev.loan = called) => loan_evals = prev.evals

C4_Witness ==
  /\ pc = "done"
  /\ calls >= 2
  /\ prev.loan = called
  /\ ~IsNone(reamor_loan)
  /\ heap[budget] # given_budget
  /\ heap[payments] # given["payments_arg"]

\* C5 as claimed: within a run the cumulative interest paid never decreases.
C5_AsClaimed == [][pc \notin {"idle", "done"} => interest_paid' >= interest_paid]_vars

\* C6 as claimed: no returned snapshot has a negative principal_remaining.
C6_AsClaimed ==
  \A i \in 1..NumEvals : loan_evals[i].principal_remaining >= 0

\* C7 as claimed: without lump sums and overflow policy, and with a budget
\* that covers the payment, the run ends with principal_remaining <= 0 and
\* length = loan.term.
C7_AsClaimed ==
  (/\ pc = "done"
   /\ NoLumpSums
   /\ NoOverflowPolicy
   /\ MonthlySavings(given_budget, monthly_payment) >= 0
   /\ given[called].rate > 0) =>
    /\ loan_evals[NumEvals].principal_remaining <= 0
    /\ loan_evals[NumEvals].length = given[called].term

\* C8 as claimed: after a reamortization at month t with fixed period F the
\* surcharge is applied in the months m >= t + F and in no other month from
\* t on.  (reamor_loan.fixed_period holds t + F.)
C8_AsClaimed ==
  (pc = "overflow" /\ ~IsNone(reamor_loan)) =>
    (surcharged <=> terms_paid >= heap[Val(reamor_loan)].fixed_period)

\* C9 as claimed: the lump sum step of a REAMORTIZING payment leaves
\* remaining_principal as it was and computes the payment from it.
C9_AsClaimed ==
  [][(/\ pc = "lump"
      /\ pc' = "sweep"
      /\ LumpDue(next_lump_sum, terms_paid)
      /\ Val(next_lump_sum).type = REAMORTIZING) =>
       /\ remaining_principal' = remaining_principal
       /\ monthly_payment' =
            GetMonthlyPayment([given["terms_arg"] EXCEPT !.amount = remaining_principal'])]_vars

\* C9 amended: the lump sum step of a REAMORTIZING payment subtracts the
\* payment's amount from remaining_principal like that of a DIRECT payment;
\* it is the amount of new_loan_terms that is ignored: the balance left after
\* the subtraction is the loan amount the new monthly payment is computed
\* from.
C9_ReamortizingSubtractsAmount ==
  [][(/\ pc = "lump"
      /\ pc' = "sweep"
      /\ LumpDue(next_lump_sum, terms_paid)
      /\ Val(next_lump_sum).type = REAMORTIZING) =>
       /\ remaining_principal' = remaining_principal - Val(next_lump_sum).amount
       /\ heap'[Val(reamor_loan')].amount = remaining_principal'
       /\ monthly_payment' =
            GetMonthlyPayment([given["terms_arg"] EXCEPT !.amount = remaining_principal'])]_vars

C9_Witness ==
  /\ pc = "sweep"
  /\ ~IsNone(reamor_loan)
  /\ heap[Val(reamor_loan)].fixed_period = terms_paid + given["terms_arg"].fixed_period
  /\ heap[Val(reamor_loan)].amount = remaining_principal
  /\ heap[Val(reamor_loan)].amount # given["terms_arg"].amount
  /\ principal_log # <<>>
  /\ remaining_principal < Last(principal_log)

\* C10 as claimed: the run on the fully fixed loan has the same remaining
\* principal after every month and the same length as the run on the ARM
\* loan, and the interest paid differs by the sum of the surcharges.
C10_AsClaimed ==
  (/\ pc = "done"
   /\ called = "fixed_arg"
   /\ prev.loan = "loan_arg"
   /\ NoLumpSums
   /\ NoOverflowPolicy) =>
    /\ principal_log = prev.principals
    /\ terms_paid = prev.length
    /\ prev.interest - interest_paid = prev.surcharge

\* the payments of the current call as the caller built them
given_payments == given["payments_arg"]
Reamortized == ~IsNone(reamor_loan)

\* C11: in every snapshot, of a finished or of a running call,
\* principal_paid + principal_remaining is the amount of the loan the caller
\* passed, also in the snapshots taken after a reamortizing payment.
C11_PaidPlusRemainingIsAmount ==
  pc # "idle" =>
    \A i \in 1..NumEvals :
      loan_evals[i].principal_paid + loan_evals[i].principal_remaining
        = given[called].amount

\* a finished call whose exit snapshot and payoff snapshot were both taken
\* after a reamortization
C11_Witness ==
  /\ pc = "done"
  /\ Reamortized
  /\ NumEvals >= 2
  /\ \E j \in 1..Len(given_payments), i \in 1..NumEvals - 1 :
       /\ given_payments[j].type = REAMORTIZING
       /\ given_payments[j].time < loan_evals[i].length

\* C12: the pending savings are swept at the start of a month exactly when
\* they are strictly greater than min_principal_payment (equal savings stay
\* pending); the sweep takes the whole pending amount off the principal and
\* resets it to 0; the month's interest is computed next, from the principal
\* the sweep left.
C12_SweepBeforeInterest ==
  [][/\ pc = "sweep" =>
          /\ pc' = "interest"
          /\ IF budget_savings > heap[budget].min_principal_payment
             THEN /\ remaining_principal' = remaining_principal - budget_savings
                  /\ budget_savings' = 0
             ELSE /\ remaining_principal' = remaining_principal
                  /\ budget_savings' = budget_savings
     /\ pc = "interest" =>
          /\ interest' = FMul(monthly_int, remaining_principal)
          /\ budget_savings' = budget_savings]_vars

\* the interest of a month was charged on a principal that the sweep of the
\* same month had reduced by savings above the threshold
C12_Witness ==
  /\ pc = "overflow"
  /\ budget_savings = 0
  /\ heap[budget].min_principal_payment > 0
  /\ Len(principal_log) >= 2
  /\ NoLumpSums
  /\ interest < FMul(monthly_int, principal_log[Len(principal_log) - 1])
  /\ interest > 0

\* savings equal to a positive threshold stayed pending through the sweep
C12_EqualNotSwept ==
  /\ pc = "interest"
  /\ budget_savings > 0
  /\ budget_savings = heap[budget].min_principal_payment

\* the overflow policy of the working budget
percent == heap[budget].overflow_principal_percent
abs == heap[budget].overflow_principal_abs

C14_AsClaimed ==
  [][(/\ pc = "annual"
      /\ (terms_paid + heap[budget].month_offset) % 12 = 0
      /\ abs # None) =>
       heap'[budget].overflow_principal_abs =
         Some(FMul(Val(abs), F(1) + FDivInt(heap[budget].expenses_rate_increase, 100)))]_vars

\* x after n annual increases of pct percent
RECURSIVE Grow(_, _, _)
Grow(x, pct, n) ==
  IF n = 0 THEN x ELSE FMul(Grow(x, pct, n - 1), F(1) + FDivInt(pct, 100))

\* the number of months of the current call whose annual check is behind
MonthsChecked == IF pc = "annual" THEN terms_paid - 1 ELSE terms_paid
\* the annual adjustments due so far: the values m of the incremented month
\* counter with (m + month_offset) % 12 = 0
AdjustmentsDue ==
  Cardinality({m \in 1..MonthsChecked : (m + given_budget.month_offset) % 12 = 0})

\* C15: at every point of a call the working income and expenses are the
\* caller's values multiplied once by their growth factor for each value m
\* of the incremented month counter reached so far with
\* (m + month_offset) % 12 = 0, and for nothing else; no adjustment precedes
\* the first simulated month.
C15_AdjustedOncePerDueMonth ==
  pc # "idle" =>
    /\ heap[budget].monthly_income =
         Grow(given_budget.monthly_income, given_budget.salary_rate_increase,
              AdjustmentsDue)
    /\ heap[budget].monthly_expenses =
         Grow(given_budget.monthly_expenses, given_budget.expenses_rate_increase,
              AdjustmentsDue)
    /\ terms_paid = 0 => heap[budget] = given_budget

\* with month_offset = 1 the first adjustment has just been made, the month
\* counter having reached 11
C15_Witness ==
  /\ pc = "while"
  /\ given_budget.month_offset = 1
  /\ terms_paid = 11
  /\ AdjustmentsDue = 1
  /\ heap[budget].monthly_income > given_budget.monthly_income
  /\ heap[budget].monthly_expenses > given_budget.monthly_expenses

\* two adjustments compounded in one run
C15_TwoAdjustments == pc # "idle" /\ AdjustmentsDue = 2

\* the number of months of the current call whose lump-sum step is behind
MonthsLumped ==
  IF pc \in {"sweep", "interest", "overflow"} THEN terms_paid + 1 ELSE terms_paid
\* the payments of the list that have no terms to reamortize with
Malformed ==
  {j \in 1..Len(given_payments) :
     /\ given_payments[j].type = REAMORTIZING
     /\ IsNone(given_payments[j].new_loan_terms)}
\* the number of payments taken off the list and applied
Consumed ==
  Len(given_payments) - Len(heap[payments])
    - (IF IsNone(next_lump_sum) THEN 0 ELSE 1)

\* C16 as claimed: a call fails exactly when it reaches the month of a
\* REAMORTIZING payment without new_loan_terms: it fails only in the
\* lump-sum step of such a month, and no call gets past the lump-sum step of
\* such a month or returns after it.
C16_AsClaimed ==
  /\ pc = "raised" => \E j \in Malformed : given_payments[j].time = terms_paid
  /\ pc \notin {"idle", "raised"} =>
       \A j \in Malformed : given_payments[j].time >= MonthsLumped

\* C17 as claimed: once the lump-sum step of a month is behind, the payments
\* applied so far are exactly those whose time is that month or an earlier
\* one, the payments that share a month included.
C17_AsClaimed ==
  pc \notin {"idle", "raised"} =>
    Consumed =
      Cardinality({j \in 1..Len(given_payments) :
                     given_payments[j].time < MonthsLumped})

\* the principal at the end of the last simulated month
EndOfLastMonth ==
  IF principal_log = <<>> THEN given[called].amount ELSE Last(principal_log)

\* C18: the step that takes the exit snapshot of month m records the
\* principal left by the end of month m - 1 (the loan amount for m = 0), the
\* interest paid and the monthly payment of that moment, and changes none of
\* them; the lump sum, reamortization, sweep, interest and amortization of
\* month m come after it.
C18_ExitSnapshotBeforeMonth ==
  [][(pc = "while" /\ pc' = "lump" /\ Len(loan_evals') = NumEvals + 1) =>
       LET e == loan_evals'[NumEvals + 1]
       IN  /\ e.length = terms_paid
           /\ e.principal_remaining = EndOfLastMonth
           /\ e.principal_paid = given[called].amount - EndOfLastMonth
           /\ e.interest_paid = interest_paid
           /\ e.monthly_payments = monthly_payment
           /\ UNCHANGED <<remaining_principal, interest_paid, monthly_payment,
                          budget_savings, next_lump_sum>>]_vars

\* an exit snapshot was taken in a month in which a reamortizing payment was
\* then applied: the snapshot shows neither the payment nor the new terms
C18_Witness ==
  /\ pc = "sweep"
  /\ NumEvals >= 1
  /\ loan_evals[NumEvals].length = terms_paid
  /\ loan_evals[NumEvals].principal_remaining > remaining_principal
  /\ loan_evals[NumEvals].monthly_payments # monthly_payment

\* C19 as claimed: the principal at the end of every simulated month is
\* strictly smaller than at the end of the month before (than the loan amount
\* for the first month); all loans have a positive rate, all lump sums and
\* thresholds are non-negative.
C19_AsClaimed ==
  pc # "idle" =>
    \A k \in 1..Len(principal_log) :
      principal_log[k] <
        (IF k = 1 THEN given[called].amount ELSE principal_log[k - 1])

\* the call has ended, by return or by the fatal error
Ended == pc \in {"done", "raised"}
\* the month that first left the principal <= 0 was the last one simulated
\* and was simulated to its end
PayoffMonthIsLast ==
  /\ Len(principal_log) = terms_paid
  /\ \A k \in 1..terms_paid - 1 : principal_log[k] > 0
  /\ principal_log[terms_paid] <= 0
  /\ principal_log[terms_paid] = remaining_principal
  /\ loan_evals[NumEvals].length = terms_paid

\* a point of the loop that the loop cannot leave: the payment is the
\* month's interest, so the amortization subtracts 0, and no lump sum is
\* left and no savings can build up to change the principal
Stuck ==
  /\ pc \in {"while", "lump", "sweep", "interest", "overflow", "annual"}
  /\ remaining_principal > 0
  /\ monthly_payment = Interest(monthly_int, remaining_principal)
  /\ IsNone(next_lump_sum)
  /\ budget_savings = 0
  /\ heap[budget].min_principal_payment >= 0
  /\ IsNone(percent) /\ ~Truthy(abs)

\* once stuck, stuck after every further step
StuckForever == [][Stuck => Stuck']_vars

\* C20 as claimed: every call ends, so that no call reaches a point the loop
\* cannot leave, and when a call returns, the month that first left the
\* principal <= 0 is the last simulated month, completed, and its index plus
\* one is the length of the final snapshot.
C20_AsClaimed ==
  /\ (pc = "while") ~> Ended
  /\ []~Stuck
  /\ [](pc = "done" => PayoffMonthIsLast)

====
